---- MODULE Spec2Model ----
(***************************************************************************)
(* Webhook ingress of the LicenseChain Seller API: the signature helpers   *)
(* and the verifyWebhook middleware of src/utils/webhook.ts, the event     *)
(* dispatch of WebhookHandler.processWebhookEvent, and the two routes of   *)
(* src/routes/webhooks.ts as they are mounted by the application.          *)
(*                                                                         *)
(* Strings are sequences of one-character strings.  A request body is a    *)
(* sequence of tokens: a token is one member "key":value of the top-level  *)
(* JSON object, or a run of insignificant whitespace.  The bytes of a body *)
(* are that sequence; two bodies have equal bytes iff they are equal       *)
(* sequences.                                                              *)
(***************************************************************************)
EXTENDS Integers, Sequences, FiniteSets, TLC

(***************************************************************************)
(* Bounds of the model.                                                    *)
(***************************************************************************)
\* bytes of a digest (SHA-256 has 32; the model scales it down)
DigestLen == 3
\* longest payload handed to the signature helpers on their own
MaxPayloadLen == 2
\* the clock reading Date.now()/1000 at which requests arrive
Epoch0 == 1000
\* an explicitly configured tolerance, in seconds
GivenTolerance == 60

\* tolerance: 300 in the constructor's defaults
DefaultTolerance == 300

(***************************************************************************)
(* Characters and hexadecimal.                                             *)
(***************************************************************************)
LowerHex == <<"0","1","2","3","4","5","6","7","8","9","a","b","c","d","e","f">>
UpperHex == <<"0","1","2","3","4","5","6","7","8","9","A","B","C","D","E","F">>

\* the value of a hex character, -1 for any other character
unhex(c) ==
  IF \E i \in 1..16 : LowerHex[i] = c
  THEN (CHOOSE i \in 1..16 : LowerHex[i] = c) - 1
  ELSE IF \E i \in 1..16 : UpperHex[i] = c
  THEN (CHOOSE i \in 1..16 : UpperHex[i] = c) - 1
  ELSE -1

\* digest('hex'): two lowercase hex characters per byte
RECURSIVE toHex(_)
toHex(bytes) ==
  IF bytes = <<>> THEN <<>>
  ELSE <<LowerHex[(Head(bytes) \div 16) + 1], LowerHex[(Head(bytes) % 16) + 1]>>
       \o toHex(Tail(bytes))

\* Buffer.from(s, 'hex'): decodes pairs of characters and stops at the first
\* pair that is incomplete or holds a character that is not a hex digit
RECURSIVE BufferFromHex(_)
BufferFromHex(s) ==
  IF Len(s) < 2 THEN <<>>
  ELSE IF unhex(s[1]) < 0 \/ unhex(s[2]) < 0 THEN <<>>
  ELSE <<unhex(s[1]) * 16 + unhex(s[2])>> \o BufferFromHex(SubSeq(s, 3, Len(s)))

\* a comparison of the lengths alone
timingSafeEqualLength(a, b) ==
  IF Len(a) # Len(b) THEN "throw" ELSE "true"

\* crypto.timingSafeEqual: a RangeError when the byte lengths differ
timingSafeEqual(a, b) ==
  IF Len(a) # Len(b) THEN "throw"
  ELSE IF a = b THEN "true" ELSE "false"

(***************************************************************************)
(* Request bodies.  A token holds a member's key and the JSON text of its  *)
(* value; a parsed body is the sequence of its <<key, value>> entries in   *)
(* insertion order, each value a typed JavaScript value.                   *)
(***************************************************************************)
WS == [k |-> " ", v |-> " "]
Member(key, text) == [k |-> key, v |-> text]

Str(x) == [t |-> "string", x |-> x]
Num(x) == [t |-> "number", x |-> x]
Obj(x) == [t |-> "object", x |-> x]

\* the JSON texts of the model with the value each parses to; the first text
\* of a value is the one JSON.stringify writes
JsonTexts ==
  << <<"'license.created'", Str("license.created")>>,
     <<"'mystery.kind'", Str("mystery.kind")>>,
     <<"7", Num("7")>>,
     <<"7.0", Num("7")>>,
     <<"{'id':'lic_1'}", Obj("lic_1")>>,
     <<"'lic_1'", Str("lic_1")>>,
     <<"'2024-01-01T00:00:00Z'", Str("2024-01-01T00:00:00Z")>>,
     <<"'yesterday'", Str("yesterday")>>,
     <<"'seller_1'", Str("seller_1")>>,
     <<"'payment_intent.succeeded'", Str("payment_intent.succeeded")>>,
     <<"{'object':{'id':'pi_1'}}", Obj("object:pi_1")>>,
     <<"'evt_1'", Str("evt_1")>>,
     <<"'evt_2'", Str("evt_2")>> >>

ParseValue(text) ==
  JsonTexts[CHOOSE i \in 1..Len(JsonTexts) : JsonTexts[i][1] = text][2]

StringifyValue(val) ==
  LET first == CHOOSE i \in 1..Len(JsonTexts) :
                 /\ JsonTexts[i][2] = val
                 /\ \A j \in 1..(i - 1) : JsonTexts[j][2] # val
  IN  JsonTexts[first][1]

EvCreated   == Member("event", "'license.created'")
EvMystery   == Member("event", "'mystery.kind'")
EvNumber    == Member("event", "7")
EvNumberDot == Member("event", "7.0")
TyCreated   == Member("type", "'license.created'")
DataObj     == Member("data", "{'id':'lic_1'}")
DataStr     == Member("data", "'lic_1'")
TsIso       == Member("timestamp", "'2024-01-01T00:00:00Z'")
TsBad       == Member("timestamp", "'yesterday'")
Seller      == Member("sellerId", "'seller_1'")
TyPayment   == Member("type", "'payment_intent.succeeded'")
DataStripe  == Member("data", "{'object':{'id':'pi_1'}}")
IdOne       == Member("id", "'evt_1'")
IdTwo       == Member("id", "'evt_2'")

\* every token of the model, in a fixed order (a token's code is its index)
Alphabet ==
  <<WS, EvCreated, EvMystery, EvNumber, EvNumberDot, TyCreated, DataObj,
    DataStr, TsIso, TsBad, Seller, TyPayment, DataStripe, IdOne, IdTwo>>

TokCode(t) == CHOOSE i \in 1..Len(Alphabet) : Alphabet[i] = t

\* obj[key] = val: a key already present keeps its place and takes the value
RECURSIVE SetField(_, _, _)
SetField(obj, key, val) ==
  IF obj = <<>> THEN << <<key, val>> >>
  ELSE IF Head(obj)[1] = key THEN << <<key, val>> >> \o Tail(obj)
  ELSE <<Head(obj)>> \o SetField(Tail(obj), key, val)

\* JSON.parse of a body: whitespace is dropped, members are set in order
RECURSIVE ParseInto(_, _)
ParseInto(obj, raw) ==
  IF raw = <<>> THEN obj
  ELSE IF Head(raw) = WS THEN ParseInto(obj, Tail(raw))
  ELSE ParseInto(SetField(obj, Head(raw).k, ParseValue(Head(raw).v)), Tail(raw))

JSONparse(raw) == ParseInto(<<>>, raw)

\* JSON.stringify of a parsed body: its entries in order, no whitespace
RECURSIVE JSONstringify(_)
JSONstringify(obj) ==
  IF obj = <<>> THEN <<>>
  ELSE <<Member(Head(obj)[1], StringifyValue(Head(obj)[2]))>>
       \o JSONstringify(Tail(obj))

\* val.object, as a sequence of at most one value (<<>>: undefined)
ObjectField(val) == IF val = Obj("object:pi_1") THEN <<Obj("pi_1")>> ELSE <<>>

\* obj[key], as a sequence of at most one value (<<>>: undefined)
RECURSIVE Field(_, _)
Field(obj, key) ==
  IF obj = <<>> THEN <<>>
  ELSE IF Head(obj)[1] = key THEN <<Head(obj)[2]>>
  ELSE Field(Tail(obj), key)

(***************************************************************************)
(* HMAC-SHA256.  The keyed hash is modelled as collision free on the       *)
(* model's payloads and secrets: the payload and the key are numbered      *)
(* injectively and the digest is that number in DigestLen bytes.           *)
(***************************************************************************)
Secrets == <<"s3cr3t", "hunter2">>
SecretCode(s) == CHOOSE i \in 1..Len(Secrets) : Secrets[i] = s

RECURSIVE PayloadCode(_)
PayloadCode(p) ==
  IF p = <<>> THEN 0
  ELSE PayloadCode(SubSeq(p, 1, Len(p) - 1)) * (Len(Alphabet) + 1) + TokCode(p[Len(p)])

RECURSIVE BytesOf(_, _)
BytesOf(n, len) ==
  IF len = 0 THEN <<>> ELSE BytesOf(n \div 256, len - 1) \o <<n % 256>>

createHmac(secret, payload) ==
  BytesOf(PayloadCode(payload) * (Len(Secrets) + 1) + SecretCode(secret), DigestLen)

\* a digest taken without update(payload)
createSignatureNoUpdate(payload, secret) == toHex(createHmac(secret, <<>>))

\* WebhookHandler.createSignature
createSignature(payload, secret) == toHex(createHmac(secret, payload))

\* the signature read as text, not as hex
verifySignatureUtf8(payload, signature, secret) ==
  timingSafeEqual(signature, BufferFromHex(createSignature(payload, secret)))

\* WebhookHandler.verifySignature: "true", "false" or "throw"
verifySignature(payload, signature, secret) ==
  timingSafeEqual(BufferFromHex(signature),
                  BufferFromHex(createSignature(payload, secret)))

\* the standalone helpers
createWebhookSignature(payload, secret) == toHex(createHmac(secret, payload))

verifyWebhookSignature(payload, signature, secret) ==
  timingSafeEqual(BufferFromHex(signature),
                  BufferFromHex(createWebhookSignature(payload, secret)))

(***************************************************************************)
(* Decimal strings.                                                        *)
(***************************************************************************)
Digits == <<"0","1","2","3","4","5","6","7","8","9">>
DigitVal(c) ==
  IF \E i \in 1..10 : Digits[i] = c
  THEN (CHOOSE i \in 1..10 : Digits[i] = c) - 1 ELSE -1

\* String(n) for n >= 0
RECURSIVE IntToStr(_)
IntToStr(n) ==
  IF n < 10 THEN <<Digits[n + 1]>>
  ELSE IntToStr(n \div 10) \o <<Digits[(n % 10) + 1]>>

\* the value of the longest prefix of digits, given the value read so far
RECURSIVE DigitsPrefix(_, _)
DigitsPrefix(s, acc) ==
  IF s = <<>> \/ DigitVal(Head(s)) < 0 THEN acc
  ELSE DigitsPrefix(Tail(s), acc * 10 + DigitVal(Head(s)))

RECURSIVE SkipSpaces(_)
SkipSpaces(s) ==
  IF s # <<>> /\ Head(s) = " " THEN SkipSpaces(Tail(s)) ELSE s

\* parseInt(s): leading whitespace and a sign are read, then <<n>> for the
\* digits that follow, <<>> (NaN) when no digit follows.  (A 0x prefix, which
\* parseInt reads as hexadecimal, is not among the model's headers.)
parseInt(s) ==
  LET t == SkipSpaces(s)
      signed == t # <<>> /\ Head(t) \in {"-", "+"}
      u == IF signed THEN Tail(t) ELSE t
  IN  IF u = <<>> \/ DigitVal(Head(u)) < 0 THEN <<>>
      ELSE IF signed /\ Head(t) = "-" THEN <<0 - DigitsPrefix(u, 0)>>
      ELSE <<DigitsPrefix(u, 0)>>

(***************************************************************************)
(* Configuration.                                                          *)
(***************************************************************************)
\* new WebhookHandler(config): { tolerance: 300, ...config }.  The spread
\* copies every own property of config, one holding undefined too.  The
\* tolerance is a sequence of at most one number (<<>>: undefined).
WebhookHandlerNew(config) ==
  [secret |-> config.secret,
   tolerance |-> IF config.has = "omitted" THEN <<DefaultTolerance>>
                 ELSE config.tolerance]

\* the WebhookConfig values handed to the constructor
ConfigInputs ==
  {[secret |-> Secrets[1], has |-> "omitted", tolerance |-> <<>>],
   [secret |-> Secrets[1], has |-> "given", tolerance |-> <<GivenTolerance>>],
   [secret |-> Secrets[1], has |-> "given", tolerance |-> <<>>]}

\* webhookMiddleware(secret): the handler behind the middleware it returns
webhookMiddleware(secret) ==
  WebhookHandlerNew([secret |-> secret, has |-> "omitted", tolerance |-> <<>>])

\* config.webhooks.secret of the application
AppWebhookSecret == Secrets[1]

(***************************************************************************)
(* Event dispatch.                                                         *)
(***************************************************************************)
\* the cases of the switch in WebhookHandler.processWebhookEvent
ClassKinds ==
  {"license.created", "license.updated", "license.revoked", "license.expired",
   "payment.completed", "payment.failed", "payment.refunded", "user.created",
   "user.updated", "product.created", "product.updated"}

\* the cases of the switch in the /licensechain route
RouteKinds ==
  {"license.created", "license.updated", "license.deleted", "user.registered",
   "user.updated", "application.created", "application.updated"}

\* a switch whose default case throws
processWebhookEventDefaultThrows(event) ==
  LET type == Field(event, "type")
      data == Field(event, "data")
  IN  IF type # <<>> /\ type[1].t = "string" /\ type[1].x \in ClassKinds
      THEN [invoked |-> << [handler |-> type[1].x, data |-> data] >>,
            threw |-> (data = <<>>)]
      ELSE [invoked |-> <<>>, threw |-> TRUE]

\* a switch whose first case lacks its break
processWebhookEventFallThrough(event) ==
  LET type == Field(event, "type")
      data == Field(event, "data")
  IN  IF type # <<>> /\ type[1].t = "string" /\ type[1].x \in ClassKinds
      THEN [invoked |-> IF type[1].x = "license.created"
                        THEN << [handler |-> "license.created", data |-> data],
                                [handler |-> "license.updated", data |-> data] >>
                        ELSE << [handler |-> type[1].x, data |-> data] >>,
            threw |-> (data = <<>>)]
      ELSE [invoked |-> <<>>, threw |-> FALSE]

\* WebhookHandler.processWebhookEvent(event): the handlers it runs, and
\* whether it throws.  Every handler of the class reads event.data.id, a
\* TypeError when event.data is undefined.
processWebhookEvent(event) ==
  LET type == Field(event, "type")
      data == Field(event, "data")
  IN  IF type # <<>> /\ type[1].t = "string" /\ type[1].x \in ClassKinds
      THEN [invoked |-> << [handler |-> type[1].x, data |-> data] >>,
            threw |-> (data = <<>>)]
      ELSE [invoked |-> <<>>, threw |-> FALSE]

(***************************************************************************)
(* WebhookHandler.verifyWebhook.                                           *)
(***************************************************************************)
Response(status, error) == [status |-> status, error |-> error]

\* const x = value; body: written The({body : x \in {value}}), the value
\* is computed once and body reads it
The(results) == CHOOSE out \in results : TRUE

Abs(x) == IF x < 0 THEN -x ELSE x

\* a test for undefined alone
FalsyStrict(h) == h = <<>>

\* !header: the header is missing or the empty string
Falsy(h) == h = <<>> \/ h[1] = <<>>

\* Math.abs(currentTime - webhookTime) > tolerance, false when webhookTime is
\* NaN or the tolerance is undefined
TooOld(currentTime, webhookTime, tolerance) ==
  /\ webhookTime # <<>>
  /\ tolerance # <<>>
  /\ Abs(currentTime - webhookTime[1]) > tolerance[1]

\* verifyWebhook(req, res, next) at clock reading currentTime: the responses
\* it writes, the calls of next() it makes, and what its checks found
verifyWebhook(config, currentTime, r) ==
  LET signature == r.sig
      timestamp == r.ts
  IN  IF Falsy(signature) \/ Falsy(timestamp)
      THEN [res |-> <<Response(401, "Missing webhook signature or timestamp")>>,
            next |-> 0, tsCheck |-> "none", sigCheck |-> "none"]
      ELSE
        LET webhookTime == parseInt(timestamp[1])
        IN  IF TooOld(currentTime, webhookTime, config.tolerance)
            THEN [res |-> <<Response(401, "Webhook timestamp too old")>>,
                  next |-> 0, tsCheck |-> "fail", sigCheck |-> "none"]
            ELSE
              The({ The({ The({
                  CASE eq = "throw" ->
                         [res |-> <<Response(500, "Webhook verification failed")>>,
                          next |-> 0, tsCheck |-> "pass", sigCheck |-> "throw"]
                    [] eq = "false" ->
                         [res |-> <<Response(401, "Invalid webhook signature")>>,
                          next |-> 0, tsCheck |-> "pass", sigCheck |-> "fail"]
                    [] eq = "true" ->
                         [res |-> <<>>, next |-> 1,
                          tsCheck |-> "pass", sigCheck |-> "pass"]
                : eq \in {timingSafeEqual(BufferFromHex(signature[1]),
                                          BufferFromHex(expectedSignature))} })
                : expectedSignature \in {createSignature(payload, config.secret)} })
                : payload \in {JSONstringify(r.body)} })

(***************************************************************************)
(* POST /licensechain.                                                     *)
(***************************************************************************)
isString(f) == f # <<>> /\ f[1].t = "string"
isObject(f) == f # <<>> /\ f[1].t = "object"
isISO8601(f) == f # <<>> /\ f[1] = Str("2024-01-01T00:00:00Z")

Sha256Prefix == <<"s","h","a","2","5","6","=">>

\* a route that tells the sender of a bad signature the secret it expected
licensechainRouteEchoesSecret(secret, r) ==
  LET event == Field(r.body, "event")
      data == Field(r.body, "data")
      timestamp == Field(r.body, "timestamp")
  IN  IF ~(isString(event) /\ isObject(data) /\ isISO8601(timestamp))
      THEN [res |-> <<Response(400, "validation errors")>>, invoked |-> <<>>,
            tsCheck |-> "none", sigCheck |-> "none"]
      ELSE
        LET signature == r.sig
        IN  The({ The({
            IF signature # <<Sha256Prefix \o expectedSignature>>
            THEN [res |-> <<Response(400, secret)>>, invoked |-> <<>>,
                  tsCheck |-> "none", sigCheck |-> "fail"]
            ELSE [res |-> <<Response(200, "")>>,
                  invoked |-> IF event[1].x \in RouteKinds
                              THEN << [handler |-> event[1].x, data |-> data] >>
                              ELSE <<>>,
                  tsCheck |-> "none", sigCheck |-> "pass"]
              : expectedSignature \in {toHex(createHmac(secret, payload))} })
              : payload \in {JSONstringify(r.body)} })

\* the validation chains and the handler of router.post('/licensechain')
licensechainRoute(secret, r) ==
  LET event == Field(r.body, "event")
      data == Field(r.body, "data")
      timestamp == Field(r.body, "timestamp")
  IN  IF ~(isString(event) /\ isObject(data) /\ isISO8601(timestamp))
      THEN [res |-> <<Response(400, "validation errors")>>, invoked |-> <<>>,
            tsCheck |-> "none", sigCheck |-> "none"]
      ELSE
        LET signature == r.sig
        IN  The({ The({
            IF signature # <<Sha256Prefix \o expectedSignature>>
            THEN [res |-> <<Response(400, "Invalid signature")>>, invoked |-> <<>>,
                  tsCheck |-> "none", sigCheck |-> "fail"]
            ELSE [res |-> <<Response(200, "")>>,
                  invoked |-> IF event[1].x \in RouteKinds
                              THEN << [handler |-> event[1].x, data |-> data] >>
                              ELSE <<>>,
                  tsCheck |-> "none", sigCheck |-> "pass"]
              : expectedSignature \in {toHex(createHmac(secret, payload))} })
              : payload \in {JSONstringify(r.body)} })

(***************************************************************************)
(* POST /stripe.                                                           *)
(***************************************************************************)
\* config.stripe.webhookSecret of the application
StripeWebhookSecret == Secrets[1]

\* the cases of the switch in the /stripe route
StripeKinds ==
  {"payment_intent.succeeded", "payment_intent.payment_failed",
   "customer.subscription.created", "customer.subscription.updated",
   "customer.subscription.deleted", "invoice.payment_succeeded",
   "invoice.payment_failed"}

\* app.use(express.json()): a JSON body is parsed and marked as read; any
\* other request is left with the empty object as its body
expressJson(ctype, raw) ==
  IF ctype = "application/json"
  THEN [read |-> TRUE, kind |-> "object", body |-> JSONparse(raw)]
  ELSE [read |-> FALSE, kind |-> "object", body |-> <<>>]

\* express.raw({ type: 'application/json' }) on the route: skips a body that
\* was read already, else stores the bytes of a JSON body as a Buffer
expressRaw(r) ==
  IF r.read \/ r.ctype # "application/json" THEN [kind |-> r.kind, body |-> r.body]
  ELSE [kind |-> "buffer", body |-> r.raw]

\* express.raw and the handler of router.post('/stripe').  hmac.update()
\* takes a string or a Buffer and throws a TypeError for any other object.
\* Reading event.data.object throws when event.data is undefined, before the
\* handler is called; each handler reads the id of what it is given and
\* throws when that is undefined.
stripeRoute(secret, r) ==
  LET signature == r.sig
      parsed == expressRaw(r)
      payload == parsed.body
  IN  IF parsed.kind # "buffer"
      THEN [res |-> <<Response(500, "Webhook processing failed")>>,
            invoked |-> <<>>, tsCheck |-> "none", sigCheck |-> "throw"]
      ELSE
        LET expectedSignature == toHex(createHmac(secret, payload))
        IN  IF signature # <<expectedSignature>>
            THEN [res |-> <<Response(400, "Invalid signature")>>, invoked |-> <<>>,
                  tsCheck |-> "none", sigCheck |-> "fail"]
            ELSE
              LET event == JSONparse(payload)
                  type == Field(event, "type")
                  data == Field(event, "data")
              IN  IF type # <<>> /\ type[1].t = "string" /\ type[1].x \in StripeKinds
                  THEN IF data = <<>>
                       THEN [res |-> <<Response(500, "Webhook processing failed")>>,
                             invoked |-> <<>>, tsCheck |-> "none", sigCheck |-> "pass"]
                       ELSE [res |-> IF ObjectField(data[1]) = <<>>
                                     THEN <<Response(500, "Webhook processing failed")>>
                                     ELSE <<Response(200, "")>>,
                             invoked |-> << [handler |-> type[1].x,
                                             data |-> ObjectField(data[1])] >>,
                             tsCheck |-> "none", sigCheck |-> "pass"]
                  ELSE [res |-> <<Response(200, "")>>, invoked |-> <<>>,
                        tsCheck |-> "none", sigCheck |-> "pass"]

(***************************************************************************)
(* The requests of the model.                                              *)
(***************************************************************************)
\* s with the character at i replaced by c
ReplaceAt(s, i, c) == [j \in 1..Len(s) |-> IF j = i THEN c ELSE s[j]]

\* s with the hex digit at i changed to the next digit value
FlipAt(s, i) == ReplaceAt(s, i, LowerHex[((unhex(s[i]) + 1) % 16) + 1])

\* s with the hex digit at i written as a capital
UpperAt(s, i) == ReplaceAt(s, i, UpperHex[unhex(s[i]) + 1])

\* what a sender may put in the signature header for a signature e it knows
Variants(e) ==
  {e, SubSeq(e, 1, Len(e) - 1), SubSeq(e, 1, Len(e) - 2), e \o <<"z", "z">>,
   Sha256Prefix \o e, <<"z", "z">>, <<>>}
  \cup {FlipAt(e, i) : i \in {1, Len(e)}}
  \cup {UpperAt(e, i) : i \in 1..Len(e)}

\* the signature headers tried for a body: missing, variants of the signature
\* of the bytes the server signs, the signature of the raw bytes (alone and
\* prefixed), a signature under another secret
SigHeaders(raw, secret) ==
  LET e == createSignature(JSONstringify(JSONparse(raw)), secret)
      r == createSignature(raw, secret)
      o == createSignature(JSONstringify(JSONparse(raw)), Secrets[2])
  IN  {<<>>} \cup {<<v>> : v \in Variants(e) \cup {r, Sha256Prefix \o r, o}}

\* the tolerance the sender aims at
AimedTolerance(config) ==
  IF config.tolerance = <<>> THEN DefaultTolerance ELSE config.tolerance[1]

TsHeaders(currentTime, tol) ==
  {<<>>, << <<>> >>, << <<"a", "b", "c">> >>}
  \cup {<<IntToStr(currentTime + d)>> : d \in {0 - tol - 1, 0 - tol, 0, tol, tol + 1}}

RouteTsHeaders(currentTime, tol) ==
  {<<>>, <<IntToStr(currentTime)>>, <<IntToStr(currentTime - tol - 1)>>}

Bodies ==
  {k \o w \o d \o t \o <<Seller>> :
     k \in {<<>>, <<EvCreated>>, <<EvMystery>>, <<EvNumberDot>>, <<TyCreated>>,
            <<TyPayment>>},
     w \in {<<>>, <<WS>>},
     d \in {<<>>, <<DataObj>>, <<DataStr>>},
     t \in {<<TsIso>>, <<TsBad>>}}

StripeBodies ==
  {k \o w \o d :
     k \in {<<>>, <<TyPayment>>, <<TyCreated>>},
     w \in {<<>>, <<WS>>},
     d \in {<<>>, <<DataObj>>, <<DataStripe>>}}

ContentTypes == {"application/json", "text/plain"}

\* a request as the routers see it: express.json() has run on it
Request(route, ctype, sig, ts, raw) ==
  LET parsed == expressJson(ctype, raw)
  IN  [route |-> route, ctype |-> ctype, sig |-> sig, ts |-> ts, raw |-> raw,
       read |-> parsed.read, kind |-> parsed.kind, body |-> parsed.body]

NoRequest == Request("none", "application/json", <<>>, <<>>, <<>>)

(***************************************************************************)
(* State.                                                                  *)
(***************************************************************************)
VARIABLES
  cfg,        \* the WebhookHandler's config, as its constructor left it
  now,        \* Math.floor(Date.now() / 1000)
  pc,         \* where the current request is: idle, received, next, done
  req,        \* the current request
  res,        \* the responses written for it
  nextCalls,  \* how often verifyWebhook called next() for it
  invoked,    \* the handlers run since the last reset, with the data each got
  threw,      \* whether processWebhookEvent threw for it
  chk,        \* what the request's checks found: none, pass, fail, throw
  dispatched, \* the events handed to processWebhookEvent since the last reset
  inflight,   \* the requests being served side by side, each with its own state
  fx          \* the last call of a signature helper on its own

vars ==
  <<cfg, now, pc, req, res, nextCalls, invoked, threw, chk, dispatched, inflight,
    fx>>

NoChecks == [ts |-> "none", sig |-> "none"]
NoCall == [op |-> "none", payload |-> <<>>, secret |-> "", signature |-> <<>>,
           out |-> <<>>]

\* the two requests of a concurrent run, and the state of one not yet there
Slots == {"a", "b"}
IdleSlot ==
  [pc |-> "idle", req |-> NoRequest, errors |-> FALSE, res |-> <<>>,
   nextCalls |-> 0, invoked |-> <<>>, threw |-> FALSE]

Init ==
  /\ cfg \in {WebhookHandlerNew(c) : c \in ConfigInputs}
  /\ now = Epoch0
  /\ pc = "idle"
  /\ req = NoRequest
  /\ res = <<>>
  /\ nextCalls = 0
  /\ invoked = <<>>
  /\ threw = FALSE
  /\ chk = NoChecks
  /\ dispatched = <<>>
  /\ inflight = [s \in Slots |-> IdleSlot]
  /\ fx = NoCall

\* a request reaches the server
Receive(r) ==
  /\ pc' = "received"
  /\ req' = r
  /\ UNCHANGED <<inflight, dispatched, cfg, now, res, nextCalls, invoked, threw, chk, fx>>

ReceiveMiddleware ==
  /\ pc = "idle"
  /\ fx.op = "none"
  /\ \E raw \in Bodies :
       \E sig \in SigHeaders(raw, cfg.secret) :
         \E ts \in TsHeaders(now, AimedTolerance(cfg)) :
           Receive(Request("middleware", "application/json", sig, ts, raw))

ReceiveLicensechain ==
  /\ pc = "idle"
  /\ fx.op = "none"
  /\ \E raw \in Bodies :
       \E sig \in SigHeaders(raw, AppWebhookSecret) :
         \E ts \in RouteTsHeaders(now, AimedTolerance(cfg)) :
           Receive(Request("licensechain", "application/json", sig, ts, raw))

ReceiveStripe ==
  /\ pc = "idle"
  /\ fx.op = "none"
  /\ \E raw \in StripeBodies, ctype \in ContentTypes :
       \E sig \in SigHeaders(raw, StripeWebhookSecret) :
         Receive(Request("stripe", ctype, sig, <<>>, raw))

\* a verifyWebhook that writes the tolerance it applied back into the config
VerifyWebhookStoresTolerance ==
  /\ pc = "received"
  /\ req.route = "middleware"
  /\ LET out == verifyWebhook(cfg, now, req)
     IN  /\ res' = out.res
         /\ nextCalls' = out.next
         /\ chk' = [ts |-> out.tsCheck, sig |-> out.sigCheck]
         /\ pc' = IF out.next > 0 THEN "next" ELSE "done"
  /\ cfg' = [cfg EXCEPT !.tolerance = <<AimedTolerance(cfg)>>]
  /\ UNCHANGED <<inflight, dispatched, now, req, invoked, threw, fx>>

\* the request runs through WebhookHandler.verifyWebhook
VerifyWebhook ==
  /\ pc = "received"
  /\ req.route = "middleware"
  /\ LET out == verifyWebhook(cfg, now, req)
     IN  /\ res' = out.res
         /\ nextCalls' = out.next
         /\ chk' = [ts |-> out.tsCheck, sig |-> out.sigCheck]
         /\ pc' = IF out.next > 0 THEN "next" ELSE "done"
  /\ UNCHANGED <<inflight, dispatched, cfg, now, req, invoked, threw, fx>>

\* whether next() throws back into verifyWebhook when the callback behind it
\* threw: it does when next runs the callback itself, it does not when next
\* is a router's, whose layer catches the exception for the error handler
NextThrows(thrown) == IF thrown THEN {TRUE, FALSE} ELSE {FALSE}

\* the catch block of verifyWebhook, which encloses the call of next()
verifyWebhookCatch(responses) ==
  Append(responses, Response(500, "Webhook verification failed"))

\* next(): the callback behind the middleware dispatches the body
ProcessWebhookEvent ==
  /\ pc = "next"
  /\ LET out == processWebhookEvent(req.body)
     IN  /\ invoked' = out.invoked
         /\ threw' = out.threw
         /\ \E rethrown \in NextThrows(out.threw) :
              res' = IF rethrown THEN verifyWebhookCatch(res) ELSE res
  /\ dispatched' = <<req.body>>
  /\ pc' = "done"
  /\ UNCHANGED <<inflight, cfg, now, req, nextCalls, chk, fx>>

\* the request runs through router.post('/licensechain')
Licensechain ==
  /\ pc = "received"
  /\ req.route = "licensechain"
  /\ LET out == licensechainRoute(AppWebhookSecret, req)
     IN  /\ res' = out.res
         /\ invoked' = out.invoked
         /\ chk' = [ts |-> out.tsCheck, sig |-> out.sigCheck]
  /\ pc' = "done"
  /\ UNCHANGED <<inflight, dispatched, cfg, now, req, nextCalls, threw, fx>>

\* a server that takes a finished request up again
FinishRetries ==
  /\ pc = "done"
  /\ pc' = "received"
  /\ UNCHANGED <<inflight, dispatched, cfg, now, req, res, nextCalls, invoked,
                 threw, chk, fx>>

\* the request is over: nothing of it is kept
Finish ==
  /\ pc = "done"
  /\ pc' = "idle"
  /\ req' = NoRequest
  /\ res' = <<>>
  /\ nextCalls' = 0
  /\ invoked' = <<>>
  /\ threw' = FALSE
  /\ chk' = NoChecks
  /\ dispatched' = <<>>
  /\ UNCHANGED <<inflight, cfg, now, fx>>

\* the request runs through router.post('/stripe')
Stripe ==
  /\ pc = "received"
  /\ req.route = "stripe"
  /\ LET out == stripeRoute(StripeWebhookSecret, req)
     IN  /\ res' = out.res
         /\ invoked' = out.invoked
         /\ chk' = [ts |-> out.tsCheck, sig |-> out.sigCheck]
  /\ pc' = "done"
  /\ UNCHANGED <<inflight, dispatched, cfg, now, req, nextCalls, threw, fx>>

Next ==
  \/ Finish
  \/ ReceiveStripe
  \/ Stripe
  \/ ReceiveMiddleware
  \/ ReceiveLicensechain
  \/ VerifyWebhook
  \/ ProcessWebhookEvent
  \/ Licensechain

Spec == Init /\ [][Next]_vars

(***************************************************************************)
(* The signature helpers on their own.                                     *)
(***************************************************************************)
SigAlphabet == {WS, EvCreated, DataObj}

SigPayloads ==
  UNION {[1..n -> SigAlphabet] : n \in 0..MaxPayloadLen}

SigSecrets == {Secrets[i] : i \in 1..Len(Secrets)}

\* the signatures handed to a verifier for payload p under secret s
SigCandidates(p, s) ==
  Variants(createSignature(p, s))
  \cup {createSignature(q, k) : q \in SigPayloads, k \in SigSecrets}

Call(op, p, s, sig, out) ==
  /\ fx' = [op |-> op, payload |-> p, secret |-> s, signature |-> sig, out |-> out]
  /\ UNCHANGED <<inflight, dispatched, cfg, now, pc, req, res, nextCalls, invoked, threw, chk>>

CallCreateSignature ==
  /\ pc = "idle"
  /\ fx.op = "none"
  /\ \E p \in SigPayloads, s \in SigSecrets :
       Call("createSignature", p, s, <<>>, createSignature(p, s))

CallVerifySignature ==
  /\ pc = "idle"
  /\ fx.op = "none"
  /\ \E p \in SigPayloads, s \in SigSecrets :
       \E sig \in SigCandidates(p, s) :
         Call("verifySignature", p, s, sig, verifySignature(p, sig, s))

CallCreateWebhookSignature ==
  /\ pc = "idle"
  /\ fx.op = "none"
  /\ \E p \in SigPayloads, s \in SigSecrets :
       Call("createWebhookSignature", p, s, <<>>, createWebhookSignature(p, s))

CallVerifyWebhookSignature ==
  /\ pc = "idle"
  /\ fx.op = "none"
  /\ \E p \in SigPayloads, s \in SigSecrets :
       \E sig \in SigCandidates(p, s) :
         Call("verifyWebhookSignature", p, s, sig, verifyWebhookSignature(p, sig, s))

\* the call has returned
Return ==
  /\ fx.op # "none"
  /\ fx' = NoCall
  /\ UNCHANGED <<inflight, dispatched, cfg, now, pc, req, res, nextCalls, invoked, threw, chk>>

NextSig ==
  \/ Return
  \/ CallCreateSignature
  \/ CallVerifySignature
  \/ CallCreateWebhookSignature
  \/ CallVerifyWebhookSignature

SpecSig == Init /\ [][NextSig]_vars

(***************************************************************************)
(* processWebhookEvent called by the embedding application, any number of  *)
(* times in a row.                                                         *)
(***************************************************************************)
\* most calls in a row
MaxDispatches == 3

\* the events handed to it: two ids, with and without a type the class
\* knows, with and without data
Events ==
  {JSONparse(i \o k \o d \o <<Seller>>) :
     i \in {<<IdOne>>, <<IdTwo>>},
     k \in {<<>>, <<TyCreated>>, <<TyPayment>>},
     d \in {<<>>, <<DataObj>>}}

\* the standalone processWebhookEvent(event, secret): a handler is built
\* for the call and its method is run
processWebhookEventStandalone(event, secret) ==
  LET handler == WebhookHandlerNew([secret |-> secret, has |-> "omitted",
                                    tolerance |-> <<>>])
  IN  processWebhookEvent(event)

\* a dispatcher that skips a handler run it has made before
RunsAfterDeduplicated(before, out) ==
  IF \E i \in 1..Len(before) : \E j \in 1..Len(out.invoked) :
       before[i] = out.invoked[j]
  THEN before
  ELSE before \o out.invoked

\* the handler runs after a call that returned out, given those before it:
\* each call runs the switch anew, nothing is remembered between calls
RunsAfter(before, out) == before \o out.invoked

Dispatch(event, out) ==
  /\ dispatched' = Append(dispatched, event)
  /\ invoked' = RunsAfter(invoked, out)
  /\ threw' = out.threw
  /\ UNCHANGED <<inflight, cfg, now, pc, req, res, nextCalls, chk, fx>>

CallProcessWebhookEvent ==
  /\ pc = "idle"
  /\ fx.op = "none"
  /\ Len(dispatched) < MaxDispatches
  /\ \E event \in Events : Dispatch(event, processWebhookEvent(event))

CallProcessWebhookEventStandalone ==
  /\ pc = "idle"
  /\ fx.op = "none"
  /\ Len(dispatched) < MaxDispatches
  /\ \E event \in Events, secret \in SigSecrets :
       Dispatch(event, processWebhookEventStandalone(event, secret))

NextDispatch ==
  \/ CallProcessWebhookEvent
  \/ CallProcessWebhookEventStandalone

SpecDispatch == Init /\ [][NextDispatch]_vars

(***************************************************************************)
(* Two requests served side by side.  Node runs one callback at a time:    *)
(* the steps of a request are the stretches of code between two points     *)
(* where it gives way (the body parser, the validation chains, an await),  *)
(* and the steps of two requests interleave in any order.  verifyWebhook   *)
(* and the dispatch behind next() are taken as two steps.                  *)
(***************************************************************************)
ConcBodies ==
  {<<TyCreated, DataObj, TsIso, Seller>>, <<TyCreated, TsIso, Seller>>,
   <<EvCreated, DataObj, TsIso, Seller>>, <<EvMystery, WS, DataObj, TsIso, Seller>>,
   <<EvCreated, TsBad, Seller>>}

ConcSigHeaders(raw, secret) ==
  LET e == createSignature(JSONstringify(JSONparse(raw)), secret)
  IN  {<<e>>, <<Sha256Prefix \o e>>, <<FlipAt(e, 1)>>}

ConcRequests ==
  UNION {{Request("middleware", "application/json", sig, ts, raw) :
            sig \in ConcSigHeaders(raw, cfg.secret),
            ts \in {<<IntToStr(now)>>, <<IntToStr(now - AimedTolerance(cfg) - 1)>>}}
         \cup
         {Request("licensechain", "application/json", sig, <<>>, raw) :
            sig \in ConcSigHeaders(raw, AppWebhookSecret)} :
         raw \in ConcBodies}

\* the validation chains of the /licensechain route: whether they leave
\* errors on the request
validationErrors(r) ==
  ~(/\ isString(Field(r.body, "event"))
    /\ isObject(Field(r.body, "data"))
    /\ isISO8601(Field(r.body, "timestamp")))

\* a step that writes to the response object of every request in flight
ConcStepShared(fl, s, new) ==
  [o \in DOMAIN fl |-> IF o = s THEN new ELSE [fl[o] EXCEPT !.res = new.res]]

\* a step of request s: req, res and the locals of the callback belong to
\* that request, and the step writes nothing else
ConcStep(fl, s, new) == [fl EXCEPT ![s] = new]

ConcUnchanged ==
  UNCHANGED <<cfg, now, pc, req, res, nextCalls, invoked, threw, chk,
              dispatched, fx>>

ConcReceive(s) ==
  /\ inflight[s].pc = "idle"
  /\ pc = "idle"
  /\ fx.op = "none"
  /\ \E r \in ConcRequests :
       inflight' = ConcStep(inflight, s,
                            [inflight[s] EXCEPT !.pc = "received", !.req = r])
  /\ ConcUnchanged

ConcVerifyWebhook(s) ==
  /\ inflight[s].pc = "received"
  /\ inflight[s].req.route = "middleware"
  /\ LET out == verifyWebhook(cfg, now, inflight[s].req)
     IN  inflight' = ConcStep(inflight, s,
           [inflight[s] EXCEPT !.res = out.res, !.nextCalls = out.next,
                               !.pc = IF out.next > 0 THEN "next" ELSE "done"])
  /\ ConcUnchanged

ConcProcessWebhookEvent(s) ==
  /\ inflight[s].pc = "next"
  /\ LET out == processWebhookEvent(inflight[s].req.body)
     IN  \E rethrown \in NextThrows(out.threw) :
           inflight' = ConcStep(inflight, s,
             [inflight[s] EXCEPT !.invoked = out.invoked, !.threw = out.threw,
                                 !.res = IF rethrown THEN verifyWebhookCatch(@)
                                         ELSE @,
                                 !.pc = "done"])
  /\ ConcUnchanged

\* the validation chains have run and left their findings on the request
ConcValidate(s) ==
  /\ inflight[s].pc = "received"
  /\ inflight[s].req.route = "licensechain"
  /\ inflight' = ConcStep(inflight, s,
       [inflight[s] EXCEPT !.errors = validationErrors(inflight[s].req),
                           !.pc = "validated"])
  /\ ConcUnchanged

\* the route's callback up to its first await, or to its response when it
\* reaches none
ConcLicensechain(s) ==
  /\ inflight[s].pc = "validated"
  /\ LET out == licensechainRoute(AppWebhookSecret, inflight[s].req)
     IN  inflight' = ConcStep(inflight, s,
           IF inflight[s].errors
           THEN [inflight[s] EXCEPT !.res = <<Response(400, "validation errors")>>,
                                    !.pc = "done"]
           ELSE IF out.invoked # <<>>
           THEN [inflight[s] EXCEPT !.invoked = out.invoked, !.pc = "awaiting"]
           ELSE [inflight[s] EXCEPT !.res = out.res, !.pc = "done"])
  /\ ConcUnchanged

\* the awaited handler has settled: res.json({ received: true })
ConcLicensechainRespond(s) ==
  /\ inflight[s].pc = "awaiting"
  /\ inflight' = ConcStep(inflight, s,
       [inflight[s] EXCEPT !.res = <<Response(200, "")>>, !.pc = "done"])
  /\ ConcUnchanged

NextConc ==
  \E s \in Slots :
    \/ ConcReceive(s)
    \/ ConcVerifyWebhook(s)
    \/ ConcProcessWebhookEvent(s)
    \/ ConcValidate(s)
    \/ ConcLicensechain(s)
    \/ ConcLicensechainRespond(s)

SpecConc == Init /\ [][NextConc]_vars

(***************************************************************************)
(* The server taking one request at a time, on a sample of requests, with  *)
(* its steps taken: verifyWebhook, processWebhookEvent and the handlers    *)
(* are synchronous or await promises that are settled already, so a        *)
(* request that has arrived is served to its end.                          *)
(***************************************************************************)
LiveRequests ==
  ConcRequests
  \cup {Request("stripe", ctype, sig, <<>>, <<TyPayment, DataStripe>>) :
          ctype \in ContentTypes,
          sig \in ConcSigHeaders(<<TyPayment, DataStripe>>, StripeWebhookSecret)}

ReceiveSample ==
  /\ pc = "idle"
  /\ fx.op = "none"
  /\ \E r \in LiveRequests : Receive(r)

NextLive ==
  \/ Finish
  \/ ReceiveSample
  \/ VerifyWebhook
  \/ ProcessWebhookEvent
  \/ Licensechain
  \/ Stripe

SpecLive ==
  /\ Init
  /\ [][NextLive]_vars
  /\ WF_vars(VerifyWebhook)
  /\ WF_vars(ProcessWebhookEvent)
  /\ WF_vars(Licensechain)
  /\ WF_vars(Stripe)
  /\ WF_vars(Finish)

(***************************************************************************)
(* Vocabulary of the properties.                                           *)
(***************************************************************************)
\* the current request has been through WebhookHandler.verifyWebhook
ViaMiddleware == req.route = "middleware" /\ pc \in {"next", "done"}

\* the current request has been through the /licensechain route
ViaLicensechain == req.route = "licensechain" /\ pc = "done"

\* a header that is there and not empty
Present(h) == h # <<>> /\ h[1] # <<>>

\* a header that is a decimal count of seconds
IsSeconds(h) == Present(h) /\ \A i \in 1..Len(h[1]) : DigitVal(h[1][i]) >= 0

\* the timestamp header is a count of seconds within tol of the clock
WithinWindow(h, tol) == IsSeconds(h) /\ Abs(now - parseInt(h[1])[1]) <= tol

\* the timestamp header is a count of seconds more than tol from the clock
OutsideWindow(h, tol) == IsSeconds(h) /\ Abs(now - parseInt(h[1])[1]) > tol

\* the outcomes of verifyWebhook
Accepted == nextCalls = 1 /\ chk.sig = "pass"
RejectedWith(status, error) == nextCalls = 0 /\ res = <<Response(status, error)>>
MissingCredentials == RejectedWith(401, "Missing webhook signature or timestamp")
StaleRequest == RejectedWith(401, "Webhook timestamp too old")
InvalidSignature == RejectedWith(401, "Invalid webhook signature")

\* the signature of the bytes the sender sent
SenderSignature(secret) == createSignature(req.raw, secret)

\* the signature verifyWebhook expects for the current request
ExpectedSignature == createSignature(JSONstringify(req.body), cfg.secret)

\* a and b have one length and differ at exactly one place
DifferAtOne(a, b) ==
  /\ Len(a) = Len(b)
  /\ Cardinality({i \in 1..Len(a) : a[i] # b[i]}) = 1

\* every character of s is a hex digit
AllHex(s) == \A i \in 1..Len(s) : unhex(s[i]) >= 0

\* a and b are hex strings of one length whose digits differ at exactly one place
DifferAtOneDigit(a, b) ==
  /\ Len(a) = Len(b) /\ AllHex(a) /\ AllHex(b)
  /\ Cardinality({i \in 1..Len(a) : unhex(a[i]) # unhex(b[i])}) = 1

(***************************************************************************)
(* C1.  A handler is invoked for a request only after that request's       *)
(* signature check and its timestamp-window check have both succeeded, on  *)
(* the middleware path and on the routes; none is invoked for a request    *)
(* whose timestamp lies outside the window.                                *)
(***************************************************************************)
C1_HandlerOnlyAfterBothChecks ==
  invoked # <<>> =>
    /\ chk.sig = "pass"
    /\ chk.ts = "pass"
    /\ ~OutsideWindow(req.ts, AimedTolerance(cfg))

(***************************************************************************)
(* C2.  verifyWebhook accepts a request carrying the HMAC of its body      *)
(* whenever |now - T| <= tolerance and rejects it as stale whenever        *)
(* |now - T| > tolerance.                                                  *)
(***************************************************************************)
C2_WindowDecidesSignedRequest ==
  (/\ ViaMiddleware
   /\ cfg.tolerance # <<>>
   /\ IsSeconds(req.ts)
   /\ req.sig = <<SenderSignature(cfg.secret)>>)
  => /\ WithinWindow(req.ts, cfg.tolerance[1]) => Accepted
     /\ OutsideWindow(req.ts, cfg.tolerance[1]) => StaleRequest

\* the same for a request signed over the bytes the server re-serializes
C2_WindowDecidesReserializedRequest ==
  (/\ ViaMiddleware
   /\ cfg.tolerance # <<>>
   /\ IsSeconds(req.ts)
   /\ req.sig = <<ExpectedSignature>>)
  => /\ WithinWindow(req.ts, cfg.tolerance[1]) => Accepted
     /\ OutsideWindow(req.ts, cfg.tolerance[1]) => StaleRequest

(***************************************************************************)
(* C3.  Round trip: a signature made by createSignature verifies against   *)
(* the payload and secret it was made for, for the methods of the class    *)
(* and for the standalone helpers.                                         *)
(***************************************************************************)
C3_RoundTrip ==
  /\ (fx.op = "verifySignature"
      /\ fx.signature = createSignature(fx.payload, fx.secret))
     => fx.out = "true"
  /\ (fx.op = "verifyWebhookSignature"
      /\ fx.signature = createWebhookSignature(fx.payload, fx.secret))
     => fx.out = "true"

C3_Witness ==
  /\ fx.op = "verifySignature"
  /\ fx.payload = <<EvCreated, DataObj>>
  /\ fx.signature = createSignature(fx.payload, fx.secret)
  /\ fx.out = "true"

(***************************************************************************)
(* C4.  A signature made for a payload does not verify against any other   *)
(* payload under the same secret: verifySignature returns false.           *)
(***************************************************************************)
C4_OtherPayloadRejected ==
  \A q \in SigPayloads :
    (/\ fx.op \in {"verifySignature", "verifyWebhookSignature"}
     /\ q # fx.payload
     /\ fx.signature = createSignature(q, fx.secret))
    => fx.out = "false"

C4_Witness ==
  /\ fx.op = "verifySignature"
  /\ fx.payload = <<EvCreated, DataObj>>
  /\ fx.signature = createSignature(<<EvCreated, WS>>, fx.secret)
  /\ fx.out = "false"

(***************************************************************************)
(* C5.  A request with both headers, a timestamp within the window and a   *)
(* signature header that differs from the expected signature in one hex    *)
(* character is rejected with 401 Invalid webhook signature, and next() is *)
(* not called.                                                             *)
(***************************************************************************)
C5_OneCharacterOff ==
  (/\ ViaMiddleware
   /\ Present(req.sig)
   /\ WithinWindow(req.ts, AimedTolerance(cfg))
   /\ AllHex(req.sig[1])
   /\ DifferAtOne(req.sig[1], ExpectedSignature))
  => InvalidSignature

\* amended: the character is a hex digit of another value
C5_OneDigitOff ==
  (/\ ViaMiddleware
   /\ Present(req.sig)
   /\ WithinWindow(req.ts, AimedTolerance(cfg))
   /\ DifferAtOneDigit(req.sig[1], ExpectedSignature))
  => InvalidSignature

C5_Witness ==
  /\ ViaMiddleware
  /\ pc = "done"
  /\ WithinWindow(req.ts, AimedTolerance(cfg))
  /\ req.sig = <<FlipAt(ExpectedSignature, Len(ExpectedSignature))>>
  /\ InvalidSignature

(***************************************************************************)
(* C6.  verifySignature returns false, and does not raise, for a signature *)
(* that decodes to another length than the digest or is not valid hex.     *)
(***************************************************************************)
C6_DecodeFailureIsFalse ==
  (/\ fx.op \in {"verifySignature", "verifyWebhookSignature"}
   /\ (Len(BufferFromHex(fx.signature)) # DigestLen \/ ~AllHex(fx.signature)))
  => fx.out = "false"

(***************************************************************************)
(* C7.  verifyWebhook rejects every request that lacks the signature       *)
(* header or the timestamp header, or has it empty, with 401 Missing       *)
(* webhook signature or timestamp, and does not call next().               *)
(***************************************************************************)
C7_MissingHeaderRejected ==
  (ViaMiddleware /\ (~Present(req.sig) \/ ~Present(req.ts)))
  => MissingCredentials /\ invoked = <<>>

C7_Witness ==
  /\ ViaMiddleware
  /\ req.ts = <<>>
  /\ req.sig = <<ExpectedSignature>>
  /\ MissingCredentials

(***************************************************************************)
(* C8.  verifyWebhook rejects every request whose timestamp header is      *)
(* present but is no integer count of seconds: next() is never called for  *)
(* it, even when its signature is correct.                                 *)
(***************************************************************************)
C8_MalformedTimestampRejected ==
  (ViaMiddleware /\ Present(req.sig) /\ Present(req.ts) /\ ~IsSeconds(req.ts))
  => nextCalls = 0 /\ res # <<>>

(***************************************************************************)
(* C9.  Every request whose signature header is the HMAC of its raw body   *)
(* and whose timestamp is within the window is accepted by verifyWebhook,  *)
(* also when the re-serialized body differs from the raw body.             *)
(***************************************************************************)
C9_RawBodySignatureAccepted ==
  (/\ ViaMiddleware
   /\ WithinWindow(req.ts, AimedTolerance(cfg))
   /\ req.sig = <<SenderSignature(cfg.secret)>>)
  => Accepted

(***************************************************************************)
(* C10.  POST /licensechain rejects a request whose timestamp is more than *)
(* tolerance seconds from the clock, and runs no handler for it.           *)
(***************************************************************************)
C10_RouteRejectsStale ==
  (ViaLicensechain /\ OutsideWindow(req.ts, AimedTolerance(cfg)))
  => /\ invoked = <<>>
     /\ res # <<>> /\ res[1].status \in {400, 401}

(***************************************************************************)
(* Vocabulary of the dispatch properties.                                  *)
(***************************************************************************)
\* the kind an event carries under key: its string, "" when it has none
Kind(obj, key) ==
  LET f == Field(obj, key)
  IN  IF f # <<>> /\ f[1].t = "string" THEN f[1].x ELSE ""

\* the current request has reached WebhookHandler.processWebhookEvent
DispatchedByClass == req.route = "middleware" /\ pc = "done" /\ nextCalls = 1

\* the current request has reached the switch of the /licensechain route
DispatchedByLicensechain == ViaLicensechain /\ chk.sig = "pass"

\* the current request has reached the switch of the /stripe route
DispatchedByStripe == req.route = "stripe" /\ pc = "done" /\ chk.sig = "pass"

\* one run of the handler of kind on data
Invocation(kind, data) == [handler |-> kind, data |-> data]

C11_WitnessRoute ==
  /\ DispatchedByLicensechain
  /\ Kind(req.body, "event") = "license.created"
  /\ invoked = <<Invocation("license.created", <<Obj("lic_1")>>)>>

\* the state a finished request leaves behind: nothing of it
Fresh ==
  /\ pc = "idle"
  /\ req = NoRequest
  /\ res = <<>>
  /\ nextCalls = 0
  /\ invoked = <<>>
  /\ threw = FALSE
  /\ chk = NoChecks
  /\ dispatched = <<>>

\* the current request was dispatched and its kind has no registered handler
UnknownKindInClass ==
  /\ DispatchedByClass
  /\ Kind(req.body, "type") # ""
  /\ Kind(req.body, "type") \notin ClassKinds

UnknownKindOnRoute ==
  /\ DispatchedByLicensechain
  /\ Kind(req.body, "event") \notin RouteKinds

(***************************************************************************)
(* C12.  Dispatch of an event whose kind has no registered handler does    *)
(* not throw and invokes no handler; the route acknowledges the request    *)
(* with 200; and the request leaves nothing behind: the configuration is   *)
(* as it was and the next request starts from the state the first one      *)
(* started from.                                                           *)
(***************************************************************************)
C12_UnknownKindHarmless ==
  /\ [](UnknownKindInClass => (invoked = <<>> /\ ~threw))
  /\ [](UnknownKindOnRoute => (invoked = <<>> /\ res = <<Response(200, "")>>))
  /\ [][(UnknownKindInClass \/ UnknownKindOnRoute) => (cfg' = cfg /\ Fresh')]_vars

C12_Witness ==
  /\ UnknownKindInClass
  /\ Kind(req.body, "type") = "payment_intent.succeeded"
  /\ invoked = <<>>
  /\ ~threw

C12_WitnessRoute ==
  /\ UnknownKindOnRoute
  /\ Kind(req.body, "event") = "mystery.kind"
  /\ res = <<Response(200, "")>>

(***************************************************************************)
(* C13.  A payload that lacks the kind field (event on the route, type in  *)
(* the class) or the data object is rejected as malformed and never        *)
(* dispatched: no handler is invoked for it, on the /licensechain route    *)
(* and through processWebhookEvent alike.                                  *)
(***************************************************************************)
C13_MalformedNeverDispatched ==
  /\ (ViaLicensechain
      /\ (Field(req.body, "event") = <<>> \/ Field(req.body, "data") = <<>>))
     => (invoked = <<>> /\ res = <<Response(400, "validation errors")>>)
  /\ (DispatchedByClass
      /\ (Field(req.body, "type") = <<>> \/ Field(req.body, "data") = <<>>))
     => (invoked = <<>> /\ ~threw)

\* the route's half of C13
C13_RouteRejectsMalformed ==
  (ViaLicensechain
   /\ (Field(req.body, "event") = <<>> \/ Field(req.body, "data") = <<>>))
  => (invoked = <<>> /\ res = <<Response(400, "validation errors")>>)

\* the handler runs that dispatching events one after another has to make:
\* one for each event of a registered type
RECURSIVE ExpectedRuns(_)
ExpectedRuns(events) ==
  IF events = <<>> THEN <<>>
  ELSE LET e == events[Len(events)]
       IN  ExpectedRuns(SubSeq(events, 1, Len(events) - 1))
           \o (IF Kind(e, "type") \in ClassKinds
               THEN <<Invocation(Kind(e, "type"), Field(e, "data"))>>
               ELSE <<>>)

(***************************************************************************)
(* C14.  There is no deduplication: dispatching the same event (the same   *)
(* id) n times runs its handler n times, twice for two dispatches; in      *)
(* general every dispatch of an event of a registered type adds one run.   *)
(***************************************************************************)
C14_NoDeduplication ==
  /\ invoked = ExpectedRuns(dispatched)
  /\ \A e \in Events :
       (/\ Kind(e, "type") \in ClassKinds
        /\ \A i \in 1..Len(dispatched) : dispatched[i] = e)
       => /\ Len(invoked) = Len(dispatched)
          /\ \A i \in 1..Len(invoked) :
               invoked[i] = Invocation(Kind(e, "type"), Field(e, "data"))

C14_Witness ==
  /\ Len(dispatched) = 2
  /\ dispatched[1] = dispatched[2]
  /\ Field(dispatched[1], "id") = <<Str("evt_1")>>
  /\ Kind(dispatched[1], "type") = "license.created"
  /\ Len(invoked) = 2

\* the handler run for the last dispatched event fails: it reads the id of
\* data the event does not have
HandlerFails ==
  /\ dispatched # <<>>
  /\ Kind(dispatched[Len(dispatched)], "type") \in ClassKinds
  /\ Field(dispatched[Len(dispatched)], "data") = <<>>

(***************************************************************************)
(* C15.  When a handler fails, dispatch reports the failure as a returned  *)
(* outcome: no exception leaves processWebhookEvent, and a route answers   *)
(* the request (500) instead of leaving it unanswered.                     *)
(***************************************************************************)
C15_HandlerFailureReturned ==
  /\ HandlerFails => ~threw
  /\ (pc = "done" /\ req.route \in {"licensechain", "stripe"}) => res # <<>>

\* the part of C15 about later requests: whatever a request's outcome, the
\* step that ends it leaves the configuration as it was and nothing else
C15_FailureLeavesNothing ==
  [][(pc = "done") => (cfg' = cfg /\ Fresh')]_vars

\* a handler was run for the current request and failed
HandlerFailed ==
  /\ invoked # <<>>
  /\ invoked[Len(invoked)].data = <<>>

\* verification turned the current request down: a credential is missing,
\* the timestamp is stale, the signature is wrong or cannot be compared
VerificationRejected ==
  /\ pc = "done"
  /\ req.route \in {"middleware", "licensechain", "stripe"}
  /\ \/ chk.sig \in {"fail", "throw"}
     \/ chk.ts = "fail"
     \/ (req.route = "middleware" /\ (~Present(req.sig) \/ ~Present(req.ts)))

(***************************************************************************)
(* C16.  Each outcome has its HTTP status: a verification rejection        *)
(* (missing credentials, stale timestamp, invalid or malformed signature)  *)
(* and a malformed event give 400 or 401, an unhandled and a handled event *)
(* give 200, and 500 is given only when a handler failed.                  *)
(***************************************************************************)
C16_StatusOfOutcome ==
  /\ VerificationRejected
     => (Len(res) = 1 /\ res[1].status \in {400, 401})
  /\ (pc = "done" /\ res = <<Response(400, "validation errors")>>)
     => invoked = <<>>
  /\ (DispatchedByLicensechain \/ DispatchedByStripe) /\ ~HandlerFailed
     => res = <<Response(200, "")>>
  /\ \A i \in 1..Len(res) : res[i].status = 500 => HandlerFailed

\* the part of C16 that the /licensechain route keeps
C16_LicensechainStatus ==
  ViaLicensechain =>
    /\ Len(res) = 1
    /\ res[1].status = IF chk.sig = "pass" THEN 200 ELSE 400

\* verifyWebhook applies the tolerance tol to the current request: with both
\* headers there and a count of seconds as timestamp, the request is turned
\* down as stale exactly when the timestamp is more than tol from the clock
AppliesTolerance(tol) ==
  (ViaMiddleware /\ Present(req.sig) /\ IsSeconds(req.ts))
  => (StaleRequest <=> OutsideWindow(req.ts, tol))

(***************************************************************************)
(* C17.  A WebhookHandler built from a config that gives no tolerance      *)
(* value, the field omitted or undefined, applies a tolerance of 300       *)
(* seconds in verifyWebhook; one built with tolerance t applies t.         *)
(***************************************************************************)
C17_DefaultTolerance ==
  \A c \in ConfigInputs :
    cfg = WebhookHandlerNew(c)
    => AppliesTolerance(IF c.tolerance = <<>> THEN 300 ELSE c.tolerance[1])

\* the same without the config that holds tolerance: undefined
C17_OmittedOrGiven ==
  \A c \in ConfigInputs :
    (cfg = WebhookHandlerNew(c) /\ (c.has = "omitted" \/ c.tolerance # <<>>))
    => AppliesTolerance(IF c.has = "omitted" THEN 300 ELSE c.tolerance[1])

\* the handler of webhookMiddleware(secret) turns down a request 301 seconds
\* off the clock
C17_MiddlewareDefault ==
  /\ cfg = webhookMiddleware(Secrets[1])
  /\ ViaMiddleware
  /\ req.ts = <<IntToStr(now - 301)>>
  /\ StaleRequest

\* what a request comes to: the responses written, the calls of next(), the
\* handlers run, whether dispatch threw
Outcome(responses, calls, runs, thrown) ==
  [res |-> responses, nextCalls |-> calls, invoked |-> runs, threw |-> thrown]

\* the outcomes request r can have when served alone by a handler with
\* config at clock reading t
OutcomesAlone(config, t, r) ==
  IF r.route = "middleware"
  THEN LET v == verifyWebhook(config, t, r)
           d == processWebhookEvent(r.body)
       IN  IF v.next > 0
           THEN {Outcome(IF rethrown THEN verifyWebhookCatch(v.res) ELSE v.res,
                         v.next, d.invoked, d.threw) :
                   rethrown \in NextThrows(d.threw)}
           ELSE {Outcome(v.res, 0, <<>>, FALSE)}
  ELSE LET o == licensechainRoute(AppWebhookSecret, r)
       IN  {Outcome(o.res, 0, o.invoked, FALSE)}

\* OutcomesAlone are the outcomes of the server that takes one request at a
\* time
OutcomeAloneIsSequential ==
  (pc = "done" /\ req.route \in {"middleware", "licensechain"})
  => Outcome(res, nextCalls, invoked, threw) \in OutcomesAlone(cfg, now, req)

\* both requests of the concurrent run are over
BothDone == \A s \in Slots : inflight[s].pc = "done"

(***************************************************************************)
(* C18.  For two requests served concurrently, in every interleaving of    *)
(* their steps, each request's outcome (responses, next(), handlers run)   *)
(* is one it can have when served alone; a step of one request changes     *)
(* nothing of the other and nothing of the handler's configuration.        *)
(***************************************************************************)
C18_ConcurrentAsAlone ==
  /\ [](\A s \in Slots :
          inflight[s].pc = "done"
          => Outcome(inflight[s].res, inflight[s].nextCalls,
                     inflight[s].invoked, inflight[s].threw)
             \in OutcomesAlone(cfg, now, inflight[s].req))
  /\ [][/\ cfg' = cfg
        /\ \A s \in Slots :
             inflight'[s] # inflight[s]
             => \A o \in Slots \ {s} : inflight'[o] = inflight[o]]_vars

\* both are over: one was accepted and dispatched, the other turned down
C18_Witness ==
  /\ BothDone
  /\ inflight["a"].req.route = "licensechain"
  /\ inflight["a"].invoked # <<>>
  /\ inflight["a"].res = <<Response(200, "")>>
  /\ inflight["b"].req.route = "middleware"
  /\ inflight["b"].res = <<Response(401, "Invalid webhook signature")>>

\* the body of the current request is well formed for the class: a type with
\* a registered handler and a data object
WellFormedForClass ==
  /\ Kind(req.body, "type") \in ClassKinds
  /\ isObject(Field(req.body, "data"))

\* the same for the /licensechain route
WellFormedForRoute ==
  /\ Kind(req.body, "event") \in RouteKinds
  /\ isObject(Field(req.body, "data"))
  /\ isISO8601(Field(req.body, "timestamp"))

(***************************************************************************)
(* C19.  A request with a fresh timestamp header, a signature header equal *)
(* to the HMAC-SHA256 of its body under the configured secret, and a well  *)
(* formed body whose kind has a registered handler passes verification and *)
(* is routed to that kind's handler, which gets the request's data         *)
(* unchanged.                                                              *)
(***************************************************************************)
C19_SignedRequestIsDispatched ==
  /\ (/\ req.route = "middleware" /\ pc = "done"
      /\ WithinWindow(req.ts, AimedTolerance(cfg))
      /\ req.sig = <<SenderSignature(cfg.secret)>>
      /\ WellFormedForClass)
     => /\ Accepted
        /\ invoked = <<Invocation(Kind(req.body, "type"), Field(req.body, "data"))>>
  /\ (/\ ViaLicensechain
      /\ req.ts = <<IntToStr(now)>>
      /\ req.sig = <<SenderSignature(AppWebhookSecret)>>
      /\ WellFormedForRoute)
     => /\ res = <<Response(200, "")>>
        /\ invoked = <<Invocation(Kind(req.body, "event"), Field(req.body, "data"))>>

\* the same for the signature each path compares with: of the re-serialized
\* body, and on the route with sha256= before it
C19_ExpectedSignatureIsDispatched ==
  /\ (/\ req.route = "middleware" /\ pc = "done"
      /\ WithinWindow(req.ts, AimedTolerance(cfg))
      /\ req.sig = <<ExpectedSignature>>
      /\ WellFormedForClass)
     => /\ Accepted
        /\ invoked = <<Invocation(Kind(req.body, "type"), Field(req.body, "data"))>>
  /\ (/\ ViaLicensechain
      /\ req.sig = <<Sha256Prefix
                      \o createSignature(JSONstringify(req.body), AppWebhookSecret)>>
      /\ WellFormedForRoute)
     => /\ res = <<Response(200, "")>>
        /\ invoked = <<Invocation(Kind(req.body, "event"), Field(req.body, "data"))>>

\* the signature header of the current request is invalid however it is
\* read: it is neither the HMAC of the bytes sent nor of the re-serialized
\* body under secret, with or without sha256= before it
InvalidSignatureHeader(secret) ==
  LET e == createSignature(JSONstringify(JSONparse(req.raw)), secret)
      r == createSignature(req.raw, secret)
  IN  req.sig \notin {<<e>>, <<r>>, <<Sha256Prefix \o e>>, <<Sha256Prefix \o r>>}

(***************************************************************************)
(* C20.  On a webhook route the event fields are validated only after the  *)
(* signature has been verified: a request with an invalid signature is     *)
(* rejected for its signature whether or not its body is well formed, and  *)
(* is never reported as malformed.                                         *)
(***************************************************************************)
C20_VerifiedBeforeParsed ==
  /\ (ViaLicensechain /\ InvalidSignatureHeader(AppWebhookSecret))
     => res = <<Response(400, "Invalid signature")>>
  /\ (ViaLicensechain /\ res = <<Response(400, "validation errors")>>)
     => chk.sig = "pass"

\* what the route does: a malformed body is reported as malformed with the
\* signature not looked at
C20_MalformedReportedUnverified ==
  (ViaLicensechain /\ validationErrors(req))
  => (res = <<Response(400, "validation errors")>> /\ chk.sig = "none")

(***************************************************************************)
(* C21.  verifyWebhook applies its checks in the order header presence,    *)
(* timestamp parse, freshness, signature, and reports the first that       *)
(* fails: a missing header before anything else, then a timestamp that is  *)
(* no count of seconds, then a stale one, each without the signature being *)
(* compared; the signature is compared only for a request that passed the  *)
(* freshness check.                                                        *)
(***************************************************************************)
C21_ChecksInOrder ==
  (req.route = "middleware" /\ pc \in {"next", "done"}) =>
    /\ (~Present(req.sig) \/ ~Present(req.ts)) => MissingCredentials
    /\ (Present(req.sig) /\ Present(req.ts) /\ ~IsSeconds(req.ts))
       => (nextCalls = 0 /\ chk.sig = "none")
    /\ (Present(req.sig) /\ OutsideWindow(req.ts, AimedTolerance(cfg)))
       => (StaleRequest /\ chk.sig = "none")
    /\ chk.sig # "none" => WithinWindow(req.ts, AimedTolerance(cfg))

\* the order as the code has it: presence, then the window for a timestamp
\* that parses (under a tolerance that is defined), then the signature
C21_OrderOfTheCode ==
  (req.route = "middleware" /\ pc \in {"next", "done"}) =>
    /\ (~Present(req.sig) \/ ~Present(req.ts))
       => (MissingCredentials /\ chk = NoChecks)
    /\ (Present(req.sig) /\ cfg.tolerance # <<>>
        /\ OutsideWindow(req.ts, cfg.tolerance[1]))
       => (StaleRequest /\ chk.sig = "none")
    /\ chk.sig # "none" => chk.ts = "pass"

(***************************************************************************)
(* C22.  For every call of verifyWebhook exactly one of two things         *)
(* happens: next() is called once and verifyWebhook writes no response, or *)
(* verifyWebhook writes one response and next() is not called; also when   *)
(* the callback run by next() throws.                                      *)
(***************************************************************************)
C22_NextOrOneResponse ==
  (req.route = "middleware" /\ pc = "done")
  => \/ (nextCalls = 1 /\ res = <<>>)
     \/ (nextCalls = 0 /\ Len(res) = 1)

\* the same up to the return of next(), and for a next() that does not throw
C22_NextOrOneResponseUnlessRethrown ==
  (req.route = "middleware" /\ pc \in {"next", "done"}
   /\ ~(threw /\ res # <<>>))
  => \/ (nextCalls = 1 /\ res = <<>>)
     \/ (nextCalls = 0 /\ Len(res) = 1)

\* the terminal states of a request, told by what the request came to
EndsRejected ==
  /\ invoked = <<>> /\ nextCalls = 0 /\ Len(res) = 1
  /\ res[1].status \in {400, 401, 500}
  /\ res[1].error # "validation errors"
EndsMalformedRejected ==
  /\ invoked = <<>> /\ nextCalls = 0
  /\ res = <<Response(400, "validation errors")>>
EndsUnhandled ==
  /\ invoked = <<>>
  /\ \/ (req.route = "middleware" /\ nextCalls = 1 /\ ~threw)
     \/ (req.route # "middleware" /\ res = <<Response(200, "")>>)
EndsHandlerOk == invoked # <<>> /\ ~HandlerFailed /\ ~threw
EndsHandlerFailed == HandlerFailed

TerminalStatesReached ==
  Cardinality({i \in 1..5 :
                 <<EndsRejected, EndsMalformedRejected, EndsUnhandled,
                   EndsHandlerOk, EndsHandlerFailed>>[i]})

(***************************************************************************)
(* C23.  Every request reaches exactly one of the terminal states          *)
(* Rejected, MalformedRejected, HandlerOk, HandlerFailed, Unhandled; and   *)
(* once it has, the service takes no further step for it: it is not        *)
(* verified, parsed or dispatched again.                                   *)
(***************************************************************************)
C23_OneTerminalState ==
  /\ (pc = "received") ~> (pc = "done")
  /\ [](pc = "done" => TerminalStatesReached = 1)
  /\ [][pc = "done" => Fresh']_vars

C23_Witness ==
  /\ pc = "done"
  /\ req.route = "licensechain"
  /\ EndsMalformedRejected
  /\ TerminalStatesReached = 1

\* the second part of C23 for every request of the full server
C23_OneTerminalStateOfAll == pc = "done" => TerminalStatesReached = 1

\* the /stripe request has a body whose handler, if it has one, gets an object
StripeBodyServable ==
  LET event == JSONparse(req.raw)
  IN  Kind(event, "type") \in StripeKinds
      => /\ Field(event, "data") # <<>>
         /\ ObjectField(Field(event, "data")[1]) # <<>>

(***************************************************************************)
(* C24.  On POST /stripe the payload fed to the HMAC is the raw body as    *)
(* received: a JSON request whose signature header is the HMAC of its raw  *)
(* bytes is verified and acknowledged with 200.                            *)
(***************************************************************************)
C24_StripeSignsRawBody ==
  (/\ req.route = "stripe" /\ pc = "done"
   /\ req.ctype = "application/json"
   /\ req.sig = <<SenderSignature(StripeWebhookSecret)>>
   /\ StripeBodyServable)
  => (chk.sig = "pass" /\ res = <<Response(200, "")>>)

\* what the route does as the application mounts it: every request is
\* answered 500 and no signature is ever compared
C24_StripeAlwaysFails ==
  (req.route = "stripe" /\ pc = "done")
  => (res = <<Response(500, "Webhook processing failed")>> /\ chk.sig = "throw")

\* the decision of the /licensechain route on the signature header of the
\* current request, were the route to verify it under the handler's secret
RouteAcceptsSignature == licensechainRoute(cfg.secret, req).sigCheck = "pass"

(***************************************************************************)
(* C25.  verifyWebhook, given a fresh timestamp, and the /licensechain     *)
(* route make the same decision on a signature header: for a body both     *)
(* take, under one secret, a header accepted by one is accepted by the     *)
(* other.                                                                  *)
(***************************************************************************)
C25_SameDecision ==
  (/\ req.route = "middleware" /\ pc = "done"
   /\ chk.ts = "pass"
   /\ WellFormedForRoute)
  => ((chk.sig = "pass") <=> RouteAcceptsSignature)

\* what the code does: verifyWebhook takes the bare hex digest, the route
\* the digest behind "sha256=", so no header is accepted by both
C25_NoHeaderAcceptedByBoth ==
  (/\ req.route = "middleware" /\ pc = "done"
   /\ chk.ts = "pass"
   /\ WellFormedForRoute)
  => ~(chk.sig = "pass" /\ RouteAcceptsSignature)

(***************************************************************************)
(* C26.  verifyWebhook and processWebhookEvent leave the handler's         *)
(* configuration (secret, tolerance) as the constructor set it, on success *)
(* and on every failure path: no step of any request changes it, and once  *)
(* a request is over nothing else of it is kept.                           *)
(***************************************************************************)
C26_ConfigNeverMutated ==
  /\ [][cfg' = cfg]_vars
  /\ [][pc = "done" /\ pc' = "idle" => Fresh']_vars

\* a request went through verifyWebhook and processWebhookEvent, and its
\* handler failed
C26_Witness ==
  /\ req.route = "middleware" /\ pc = "done"
  /\ nextCalls = 1 /\ threw

\* the secrets a deployment may be configured with
SecretSet == {Secrets[i] : i \in 1..Len(Secrets)}

\* the texts the two verifiers answer a rejected request with
RejectionMessages ==
  {"Missing webhook signature or timestamp", "Webhook timestamp too old",
   "Invalid webhook signature", "Webhook verification failed",
   "validation errors", "Invalid signature"}

\* how the current request fares when its verifier holds the given secret:
\* whether it is rejected, at what stage, and with what response
VerdictUnder(secret) ==
  IF req.route = "middleware"
  THEN LET out == verifyWebhook([cfg EXCEPT !.secret = secret], now, req)
       IN  [rejected |-> out.next = 0, stage |-> <<out.tsCheck, out.sigCheck>>,
            res |-> out.res]
  ELSE LET out == licensechainRoute(secret, req)
       IN  [rejected |-> out.sigCheck # "pass",
            stage |-> <<out.tsCheck, out.sigCheck>>, res |-> out.res]

\* the current request was rejected by verifyWebhook or by /licensechain
RejectedByVerifier ==
  /\ pc = "done"
  /\ req.route \in {"middleware", "licensechain"}
  /\ chk.sig # "pass"

(***************************************************************************)
(* C27.  The response to a rejected request does not depend on the secret: *)
(* under any other secret that rejects the same request at the same stage  *)
(* the status and the body are the same, and the body is one of the fixed  *)
(* texts, which hold neither a secret nor a signature.                     *)
(***************************************************************************)
C27_RejectionIndependentOfSecret ==
  RejectedByVerifier
  => /\ \A secret \in SecretSet :
          LET other == VerdictUnder(secret)
          IN  (other.rejected /\ other.stage = <<chk.ts, chk.sig>>)
              => other.res = res
     /\ \A i \in 1..Len(res) :
          /\ res[i].error \in RejectionMessages
          /\ res[i].error \notin SecretSet

\* a request whose signature is compared and found wrong under either secret
C27_Witness ==
  /\ RejectedByVerifier
  /\ chk.sig = "fail"
  /\ \A secret \in SecretSet :
       /\ VerdictUnder(secret).rejected
       /\ VerdictUnder(secret).stage = <<chk.ts, chk.sig>>

(***************************************************************************)
(* The work of a signature comparison: how many places of its operands it  *)
(* looks at before it answers.                                             *)
(***************************************************************************)
\* crypto.timingSafeEqual on two buffers of one length: every byte, whatever
\* the bytes are
timingSafeEqualExamined(a, b) == Len(a)

\* a !== b on two strings of one length: up to the first place where they
\* differ
strictNotEqualExamined(a, b) ==
  IF a = b THEN Len(a)
  ELSE CHOOSE i \in 1..Len(a) :
         a[i] # b[i] /\ \A j \in 1..(i - 1) : a[j] = b[j]

\* the operands of the comparison in verifyWebhook
verifyWebhookOperands(config, r) ==
  <<BufferFromHex(r.sig[1]),
    BufferFromHex(createSignature(JSONstringify(r.body), config.secret))>>

\* the operands of the comparison in the /licensechain route
licensechainRouteOperands(secret, r) ==
  <<r.sig[1], Sha256Prefix \o toHex(createHmac(secret, JSONstringify(r.body)))>>

\* the operands of the comparison made for the current request, and the
\* places of them the comparison looked at
Operands ==
  IF req.route = "middleware" THEN verifyWebhookOperands(cfg, req)
  ELSE licensechainRouteOperands(AppWebhookSecret, req)

Examined ==
  IF req.route = "middleware"
  THEN timingSafeEqualExamined(Operands[1], Operands[2])
  ELSE strictNotEqualExamined(Operands[1], Operands[2])

\* the signature header of the current request was compared with a value of
\* its own length
ComparedAtLength ==
  /\ pc = "done"
  /\ req.route \in {"middleware", "licensechain"}
  /\ chk.sig \in {"pass", "fail"}
  /\ req.sig # <<>>
  /\ Len(Operands[1]) = Len(Operands[2])

(***************************************************************************)
(* C28.  Every signature comparison on a webhook path takes constant time: *)
(* it looks at every place of its operands, wherever they first differ.    *)
(***************************************************************************)
C28_ConstantTimeComparison ==
  ComparedAtLength => Examined = Len(Operands[2])

\* the comparisons of the WebhookHandler class are constant-time
C28_HandlerComparesInConstantTime ==
  (ComparedAtLength /\ req.route = "middleware")
  => Examined = Len(Operands[2])

(***************************************************************************)
(* The API routes behind authMiddleware.                                   *)
(***************************************************************************)
\* config.jwt.secret of the application, and a key it does not hold
JwtSecret == "your-jwt-secret"
OtherKey == "attacker-key"

\* the routers the application mounts under /api, and whether authMiddleware
\* stands before them
Mounts ==
  {[path |-> "/api/auth", auth |-> FALSE],
   [path |-> "/api/sellers", auth |-> TRUE],
   [path |-> "/api/analytics", auth |-> TRUE],
   [path |-> "/api/webhooks", auth |-> FALSE],
   [path |-> "/api/payments", auth |-> TRUE],
   [path |-> "/api/licenses", auth |-> TRUE],
   [path |-> "/api/users", auth |-> TRUE],
   [path |-> "/api/admin", auth |-> TRUE]}

\* the error classes of jsonwebtoken: TokenExpiredError and NotBeforeError
\* are built on the prototype of JsonWebTokenError
instanceOf(error, class) ==
  \/ error = class
  \/ class = "JsonWebTokenError" /\ error \in {"TokenExpiredError", "NotBeforeError"}
  \/ class = "Error"

\* jwt.verify(token, secret) at the given clock: the payload, or the error
\* thrown.  The signature is checked first, then nbf, then exp.
jwtVerify(token, secret, clock) ==
  IF token.form # "jwt"
  THEN [ok |-> FALSE, error |-> "JsonWebTokenError", decoded |-> <<>>]
  ELSE IF token.key # secret
  THEN [ok |-> FALSE, error |-> "JsonWebTokenError", decoded |-> <<>>]
  ELSE IF token.nbf # <<>> /\ token.nbf[1] > clock
  THEN [ok |-> FALSE, error |-> "NotBeforeError", decoded |-> <<>>]
  ELSE IF token.exp # <<>> /\ clock >= token.exp[1]
  THEN [ok |-> FALSE, error |-> "TokenExpiredError", decoded |-> <<>>]
  ELSE [ok |-> TRUE, error |-> "", decoded |-> <<token.payload>>]

\* a verifier that reads the payload without checking anything (jwt.decode)
jwtDecode(token, secret, clock) ==
  IF token.form # "jwt"
  THEN [ok |-> FALSE, error |-> "JsonWebTokenError", decoded |-> <<>>]
  ELSE [ok |-> TRUE, error |-> "", decoded |-> <<token.payload>>]

\* res.status(status).json({ error, message })
AuthResponse(status, error, message) ==
  [status |-> status, error |-> error, message |-> message]

\* authHeader.startsWith('Bearer ') and authHeader.substring(7): the header
\* is kept as the text before the token and the token
startsWithBearer(header) == header.prefix = "Bearer "

\* an authMiddleware that trusts whatever payload the token carries
authMiddlewareDecodesOnly(authorization, clock) ==
  IF authorization = <<>> \/ ~startsWithBearer(authorization[1])
  THEN [res |-> <<AuthResponse(401, "Unauthorized",
                               "No token provided or invalid format")>>,
        user |-> <<>>, next |-> 0]
  ELSE
    LET token == authorization[1].token
        verified == jwtDecode(token, JwtSecret, clock)
    IN  IF verified.ok
        THEN [res |-> <<>>, user |-> verified.decoded, next |-> 1]
        ELSE [res |-> <<AuthResponse(401, "Unauthorized", "Invalid token")>>,
              user |-> <<>>, next |-> 0]

\* authMiddleware: what it answers, the user it attaches and whether it calls
\* next().  The catch block tests for JsonWebTokenError before it tests for
\* TokenExpiredError.
authMiddleware(authorization, clock) ==
  IF authorization = <<>> \/ ~startsWithBearer(authorization[1])
  THEN [res |-> <<AuthResponse(401, "Unauthorized",
                               "No token provided or invalid format")>>,
        user |-> <<>>, next |-> 0]
  ELSE
    LET token == authorization[1].token
        verified == jwtVerify(token, JwtSecret, clock)
    IN  IF verified.ok
        THEN [res |-> <<>>, user |-> verified.decoded, next |-> 1]
        ELSE IF instanceOf(verified.error, "JsonWebTokenError")
        THEN [res |-> <<AuthResponse(401, "Unauthorized", "Invalid token")>>,
              user |-> <<>>, next |-> 0]
        ELSE IF instanceOf(verified.error, "TokenExpiredError")
        THEN [res |-> <<AuthResponse(401, "Unauthorized", "Token expired")>>,
              user |-> <<>>, next |-> 0]
        ELSE [res |-> <<AuthResponse(500, "Internal Server Error",
                                     "Authentication failed")>>,
              user |-> <<>>, next |-> 0]

\* the payloads a token may carry
Users ==
  {[id |-> "u1", role |-> "seller"], [id |-> "u2", role |-> "admin"]}

\* the tokens tried at the given clock: not a JWT, or a JWT signed with the
\* application's key or another one, with or without exp and nbf claims
Tokens(clock) ==
  {[form |-> "garbage", key |-> OtherKey, exp |-> <<>>, nbf |-> <<>>,
    payload |-> [id |-> "u1", role |-> "seller"]]}
  \cup {[form |-> "jwt", key |-> k, exp |-> e, nbf |-> n, payload |-> u] :
          k \in {JwtSecret, OtherKey},
          e \in {<<>>, <<clock - 1>>, <<clock>>, <<clock + 1>>},
          n \in {<<>>, <<clock + 1>>},
          u \in Users}

\* the Authorization headers tried: none, or a token behind one of these
AuthorizationHeaders(clock) ==
  {<<>>}
  \cup {<<[prefix |-> p, token |-> t]>> :
          p \in {"Bearer ", "bearer ", "Basic ", "Bearer"}, t \in Tokens(clock)}

\* a request for a handler of one of the routers
ApiRequest(mount, authorization) ==
  [route |-> "api", mount |-> mount.path, auth |-> mount.auth,
   authorization |-> authorization, user |-> <<>>]

ReceiveApi ==
  /\ pc = "idle"
  /\ fx.op = "none"
  /\ \E mount \in Mounts :
       \E authorization \in AuthorizationHeaders(now) :
         Receive(ApiRequest(mount, authorization))

\* app.use(path, authMiddleware, router): the request runs through
\* authMiddleware
AuthMiddleware ==
  /\ pc = "received"
  /\ req.route = "api"
  /\ req.auth
  /\ LET out == authMiddleware(req.authorization, now)
     IN  /\ res' = out.res
         /\ req' = [req EXCEPT !.user = out.user]
         /\ nextCalls' = out.next
         /\ pc' = IF out.next > 0 THEN "next" ELSE "done"
  /\ UNCHANGED <<inflight, dispatched, cfg, now, invoked, threw, chk, fx>>

\* app.use(path, router): the request goes to the router at once
Unguarded ==
  /\ pc = "received"
  /\ req.route = "api"
  /\ ~req.auth
  /\ pc' = "next"
  /\ UNCHANGED <<inflight, dispatched, cfg, now, req, res, nextCalls, invoked,
                 threw, chk, fx>>

\* a handler of the router runs and answers, with the user it finds on the
\* request
MountedHandler ==
  /\ pc = "next"
  /\ req.route = "api"
  /\ invoked' = << [handler |-> req.mount, data |-> req.user] >>
  /\ res' = Append(res, AuthResponse(200, "", ""))
  /\ pc' = "done"
  /\ UNCHANGED <<inflight, dispatched, cfg, now, req, nextCalls, threw, chk, fx>>

NextAuth ==
  \/ ReceiveApi
  \/ AuthMiddleware
  \/ Unguarded
  \/ MountedHandler
  \/ Finish

SpecAuth == Init /\ [][NextAuth]_vars

\* the current request is for a router behind authMiddleware and has been
\* through it
ViaAuthMiddleware == req.route = "api" /\ req.auth /\ pc \in {"next", "done"}

\* the current request carries a Bearer token
HasBearer == req.authorization # <<>> /\ req.authorization[1].prefix = "Bearer "

\* the token of the current request is a JWT signed with the application's
\* key, in force at the clock
TokenVerifies ==
  LET token == req.authorization[1].token
  IN  /\ token.form = "jwt"
      /\ token.key = JwtSecret
      /\ token.nbf # <<>> => token.nbf[1] <= now
      /\ token.exp # <<>> => now < token.exp[1]

\* the routers the application puts authMiddleware before
ProtectedPaths ==
  {"/api/sellers", "/api/analytics", "/api/payments", "/api/licenses",
   "/api/users", "/api/admin"}

(***************************************************************************)
(* C29.  A handler under /api/sellers, /api/analytics, /api/payments,      *)
(* /api/licenses, /api/users or /api/admin runs only after authMiddleware  *)
(* has verified a Bearer JWT and set req.user; a request with no           *)
(* Authorization header, a header that is not Bearer or a token that fails *)
(* verification gets one response from authMiddleware, next() is not       *)
(* called for it and no handler runs.                                      *)
(***************************************************************************)
C29_HandlersBehindAuth ==
  /\ \A mount \in Mounts : mount.path \in ProtectedPaths => mount.auth
  /\ (req.route = "api" /\ req.mount \in ProtectedPaths /\ pc \in {"next", "done"})
     => /\ (nextCalls > 0 \/ invoked # <<>>)
           => /\ HasBearer /\ TokenVerifies
              /\ req.user = <<req.authorization[1].token.payload>>
        /\ ~(HasBearer /\ TokenVerifies)
           => /\ nextCalls = 0 /\ invoked = <<>> /\ req.user = <<>>
              /\ pc = "done"
              /\ Len(res) = 1 /\ res[1].status = 401

\* a request for /api/admin with a Bearer token signed with another key that
\* names an admin: answered by authMiddleware
C29_Witness ==
  /\ req.route = "api" /\ req.mount = "/api/admin" /\ pc = "done"
  /\ HasBearer
  /\ req.authorization[1].token.form = "jwt"
  /\ req.authorization[1].token.key = OtherKey
  /\ req.authorization[1].token.payload.role = "admin"
  /\ res = <<AuthResponse(401, "Unauthorized", "Invalid token")>>

\* a request for /api/admin with a token that verifies: the handler ran
C29_WitnessServed ==
  /\ req.route = "api" /\ req.mount = "/api/admin" /\ pc = "done"
  /\ HasBearer /\ TokenVerifies
  /\ invoked # <<>>

\* the token of the current request is a JWT signed with the application's
\* key whose exp claim has passed, nothing else being wrong with it
TokenExpired ==
  LET token == req.authorization[1].token
  IN  /\ token.form = "jwt"
      /\ token.key = JwtSecret
      /\ token.nbf # <<>> => token.nbf[1] <= now
      /\ token.exp # <<>> /\ token.exp[1] <= now

(***************************************************************************)
(* C30.  authMiddleware answers a request whose JWT is well formed and     *)
(* correctly signed but expired with 401 and the message 'Token expired',  *)
(* and any other token that fails verification with 401 and the message    *)
(* 'Invalid token'.                                                        *)
(***************************************************************************)
C30_ExpiredOrInvalid ==
  (ViaAuthMiddleware /\ HasBearer /\ ~TokenVerifies)
  => res = <<AuthResponse(401, "Unauthorized",
                          IF TokenExpired THEN "Token expired" ELSE "Invalid token")>>

\* what the code does: the test for JsonWebTokenError comes first and holds
\* for a TokenExpiredError too, so every failing token is answered alike
C30_EveryFailureIsInvalidToken ==
  (ViaAuthMiddleware /\ HasBearer /\ ~TokenVerifies)
  => res = <<AuthResponse(401, "Unauthorized", "Invalid token")>>

====
